---- MODULE Spec2Model ----
(***************************************************************************)
(* Model of the Wisp actor (src/src/agent.ts) and its Jetstream consumer   *)
(* (src/src/jetstream.ts).                                                 *)
(*                                                                         *)
(* The actor is a JavaScript object driven by callbacks.  A handler runs   *)
(* without interruption between two awaits of external I/O (profile        *)
(* lookup, login, chat fetch, one step of the decision procedure); at such *)
(* an await any other callback may run.  Awaits of this.ctx.storage do not *)
(* admit other callbacks (the platform's input gate), so the code between  *)
(* two external awaits is one action.  Each action below is "resume after  *)
(* await X with outcome Y and run to the next await".                      *)
(*                                                                         *)
(* Sequential code is written as operators from a world record (all the    *)
(* state) to a world record; an action commits the world its code yields.  *)
(***************************************************************************)
EXTENDS Integers, Sequences, FiniteSets, TLC

\* ------------------------------------------------------------ constants
REFLECTION_INTERVAL == 6 * 60 * 60 * 1000
THINKING_INTERVAL == 2 * 60 * 60 * 1000
CURSOR_PERSIST_INTERVAL == 30000
DM_POLL_INTERVAL == 60000
safetyMargin == 10000000
\* stopWhen: stepCountIs(8)
StepCap == 8

\* undefined / null for numbers (this.cursor, this.connectedAt, storage misses)
Undefined == -1
\* JavaScript truthiness of a number | undefined
Truthy(n) == n # Undefined /\ n # 0

\* ------------------------------------------------------------ bounds
\* sockets the actor may create in one behaviour
MaxSockets == 2
\* stream-event handlers suspended at the same time
MaxInFlight == 1
\* inbound HTTP requests in one behaviour
MaxRequests == 2
\* process crashes in one behaviour
MaxCrashes == 1
\* durable-storage faults in one behaviour
MaxFaults == 1
\* clock advances in one behaviour, each of TickMs milliseconds
MaxTicks == 3
TickMs == 20000
\* external actions recorded per event
MaxActs == 2
\* frames that do not parse, per connection
MaxBadFrames == 1

\* Date.now() at construction: any real clock reading exceeds every interval
Now0 == REFLECTION_INTERVAL + DM_POLL_INTERVAL

\* ------------------------------------------------------------ identities
AgentDid == "did:self"
OtherDid == "did:other"
ThirdDid == "did:third"
AdminDid == "did:admin"
\* this.agentDid before ensureInitialized has assigned it
NoDid == ""

\* an at:// uri, kept as its author and record key; at://<did>/... starts
\* with `at://${did}/` exactly when author = did
Uri(author, rkey) == [author |-> author, rkey |-> rkey]
NoUri == Uri("", "")

\* ------------------------------------------------------------ events
\* JetstreamEvent.  commit = FALSE: the event has no commit payload.
\* record = FALSE: commit.record is missing.  subject: record.subject of a
\* follow (a did).  subjectUri: record.subject.uri of a like.  facets: the
\* features of all facets, each [type, did].  reply = FALSE: no record.reply.
Event(did, t, kind, commit, op, coll, record, subject, subjectUri, facets, reply, parent, root) ==
    [did |-> did, time_us |-> t, kind |-> kind, commit |-> commit,
     operation |-> op, collection |-> coll, record |-> record,
     subject |-> subject, subjectUri |-> subjectUri, facets |-> facets,
     reply |-> reply, parent |-> parent, root |-> root]

POST == "app.bsky.feed.post"
LIKE == "app.bsky.feed.like"
FOLLOW == "app.bsky.graph.follow"
MENTION == "app.bsky.richtext.facet#mention"

Mention(did) == [type |-> MENTION, did |-> did]

\* a reply by another account, in a thread rooted at a third account's post,
\* that mentions the actor
EvMention(t) ==
    Event(OtherDid, t, "commit", TRUE, "create", POST, TRUE, "", NoUri,
          <<Mention(AgentDid)>>, TRUE, Uri(ThirdDid, "p1"), Uri(ThirdDid, "r1"))
\* a like of a third account's post
EvLikeOther(t) ==
    Event(OtherDid, t, "commit", TRUE, "create", LIKE, TRUE, "", Uri(ThirdDid, "p1"),
          <<>>, FALSE, NoUri, NoUri)
\* a follow of the actor
EvFollowMe(t) ==
    Event(OtherDid, t, "commit", TRUE, "create", FOLLOW, TRUE, AgentDid, NoUri,
          <<>>, FALSE, NoUri, NoUri)

\* a later reply by another account in the same thread, to a third account's
\* post, that mentions nobody
EvReply(t) ==
    Event(OtherDid, t, "commit", TRUE, "create", POST, TRUE, "", NoUri,
          << >>, TRUE, Uri(ThirdDid, "p1"), Uri(ThirdDid, "r1"))

\* The upstream log: commit events in time order (time_us, microseconds,
\* relative to an origin 20 s before the first one).
Log == << EvMention(20000000), EvLikeOther(45000000), EvReply(50000000) >>

\* bodies an inbound POST /event may carry
Posted == << EvReply(20000000) >>

\* every event a handler may hold, by index
AllEvents == Log \o Posted
EvIds == 1..Len(AllEvents)
LogIds == 1..Len(Log)
PostedIds == (Len(Log) + 1)..Len(AllEvents)


\* ------------------------------------------------------------ state
VARIABLES
    mem,             \* the Wisp object's fields (lost on a crash)
    kv,              \* ctx.storage key-value entries (durable)
    tracked_threads, \* rows of the tracked_threads table (durable)
    alarmAt,         \* the durable alarm: its due time, or Undefined
    hs,              \* handler invocations in progress, by slot
    sockets,         \* the WebSockets the actor created
    now,             \* Date.now()
    inbox,           \* how far the admin conversation has got (index in Inboxes)
    head,            \* highest Log index the upstream has delivered so far
    lastDone,        \* history: time_us of the event whose onEvent returned last
    lastPut,         \* history: the last jetstream_cursor put: when, in which lifetime, how many so far
    acts,            \* history: external actions taken, per event
    loopLog,         \* history: how the last runToolLoop run ended
    crashes,         \* history: crashes so far
    pendingAtCrash,  \* history: time_us of the events unfinished at the last crash
    faults,          \* history: storage faults so far
    requests,        \* history: inbound requests so far
    noops,           \* history: connect calls that returned early so far (capped at 1)
    probe            \* a call of isRelevantEvent or upsertThread on its own: inputs and result

vars == << mem, kv, tracked_threads, alarmAt, hs, sockets, now, inbox, head,
           lastDone, lastPut, acts, loopLog, crashes, pendingAtCrash,
           faults, requests, noops, probe >>

\* handler slots: the alarm, one inbound request, MaxInFlight stream events
AlarmSlot == << "alarm", 0 >>
ReqSlot == << "req", 0 >>
EvSlots == { << "ev", i >> : i \in 1..MaxInFlight }
Slots == { AlarmSlot, ReqSlot } \cup EvSlots

\* a handler invocation.  pc: the await it is suspended at ("free": none).
\* route: the request path.  task: the runToolLoop call site.  steps: steps of
\* generateText so far.  ev: the event held.  sock: the socket it came from.
\* handle: profile.handle is known.  msgs: the inbox fetched.  lastChecked: the
\* last_dm_check read before the fetch.
FreeH == [pc |-> "free", route |-> "", task |-> "", steps |-> 0, ev |-> 0,
          sock |-> 0, handle |-> FALSE, msgs |-> 0, lastChecked |-> Undefined]

\* private fields of class Wisp as the constructor leaves them
Mem0 == [ws |-> 0, agentDid |-> NoDid, lastCursorPersist |-> 0,
         cursor |-> Undefined, initialized |-> FALSE, eventsReceived |-> 0,
         eventsHandled |-> 0, connectedAt |-> Undefined, epsWindowStart |-> 0,
         epsWindowCount |-> 0, epsPrevRate |-> 0]

\* empty durable storage
Kv0 == [jetstream_cursor |-> Undefined, last_reflection |-> Undefined,
        last_thinking |-> Undefined, last_dm_check |-> Undefined,
        identity |-> FALSE, norms |-> FALSE]

\* the `cursor` query parameter of a connection
NoParam == [present |-> FALSE, value |-> 0]
Param(v) == [present |-> TRUE, value |-> v]

\* a WebSocket.  state: "none" (not created), readyState "connecting", "open",
\* "closing", "closed", or "gone" (its process crashed).  pos: next Log index
\* the upstream will send.  closeCalls: times config.onClose ran.  life: the
\* process lifetime that created it.  bad: frames received that did not
\* parse; badAt: the value of pos when the last of them came.
NoSocket == [state |-> "none", param |-> NoParam, pos |-> 0, closeCalls |-> 0, life |-> 0,
             bad |-> 0, badAt |-> 0]

NoPut == [at |-> Undefined, life |-> 0, n |-> 0]

NoRun == [how |-> "", steps |-> 0, returned |-> FALSE]

\* the admin conversation, newest message first, as it grows: the admin
\* writes, the actor answers, the admin writes twice and deletes the second.
\* view: $type is chat.bsky.convo.defs#messageView (a deleted message is a
\* deletedMessageView).
Msg(view, sender, sentAt) == [view |-> view, sender |-> sender, sentAt |-> sentAt]
Inboxes == << << >>,
              << Msg(TRUE, AdminDid, 5) >>,
              << Msg(TRUE, AgentDid, 7), Msg(TRUE, AdminDid, 5) >>,
              << Msg(FALSE, AdminDid, 9), Msg(TRUE, AdminDid, 8),
                 Msg(TRUE, AgentDid, 7), Msg(TRUE, AdminDid, 5) >> >>

\* no call on its own.  e: the event given to isRelevantEvent.  judged: it
\* has returned; relevant: what it returned.  tt0: the table before the
\* upserts; ups: the upserts made, each [rootUri, t].
NoProbe == [e |-> AllEvents[1], judged |-> FALSE, relevant |-> FALSE,
            tt0 |-> {}, ups |-> << >>]

Init ==
    /\ mem = Mem0
    /\ kv = Kv0
    /\ tracked_threads = {}
    /\ alarmAt = Undefined
    /\ hs = [h \in Slots |-> FreeH]
    /\ sockets = [s \in 1..MaxSockets |-> NoSocket]
    /\ now = Now0
    /\ inbox = 1
    /\ head = 0
    /\ lastDone = Undefined
    /\ lastPut = NoPut
    /\ acts = [e \in EvIds |-> 0]
    /\ loopLog = NoRun
    /\ crashes = 0
    /\ pendingAtCrash = {}
    /\ faults = 0
    /\ requests = 0
    /\ noops = 0
    /\ probe = NoProbe

\* ------------------------------------------------------------ the world
\* All the state as one record, so that sequential code composes.  ok: no
\* bound of the model was exceeded.  inj: a storage fault is to be injected
\* at the next storage read of runToolLoop.  notes: a note is pending;
\* looked: the code has looked whether one is.
World ==
    [mem |-> mem, kv |-> kv, tt |-> tracked_threads, alarmAt |-> alarmAt,
     hs |-> hs, sockets |-> sockets, now |-> now, inbox |-> inbox, head |-> head,
     lastDone |-> lastDone, lastPut |-> lastPut, acts |-> acts,
     loopLog |-> loopLog, crashes |-> crashes, pendingAtCrash |-> pendingAtCrash,
     faults |-> faults, requests |-> requests, noops |-> noops,
     ok |-> TRUE, inj |-> FALSE, notes |-> FALSE, looked |-> FALSE]

\* the world with an action's inputs: whether the storage read of the next
\* runToolLoop fails, and whether notes_to_self holds a pending note
WorldIn(inj, notes) == [World EXCEPT !.inj = inj, !.notes = notes]

\* An input that the code did not get to read changes nothing: such a step
\* is the step without the input, and is left to it.
Commit(w) ==
    /\ w.ok
    /\ ~w.inj
    /\ w.notes => w.looked
    /\ mem' = w.mem
    /\ kv' = w.kv
    /\ tracked_threads' = w.tt
    /\ alarmAt' = w.alarmAt
    /\ hs' = w.hs
    /\ sockets' = w.sockets
    /\ now' = w.now
    /\ inbox' = w.inbox
    /\ head' = w.head
    /\ lastDone' = w.lastDone
    /\ lastPut' = w.lastPut
    /\ acts' = w.acts
    /\ loopLog' = w.loopLog
    /\ crashes' = w.crashes
    /\ pendingAtCrash' = w.pendingAtCrash
    /\ faults' = w.faults
    /\ requests' = w.requests
    /\ noops' = w.noops
    /\ probe' = probe


\* ------------------------------------------------------------ jetstream.ts
\* the cursor is sent as it is, with no roll-back
CursorParam_noMargin(cursor) ==
    IF Truthy(cursor) THEN Param(cursor) ELSE NoParam

\* `if (config.cursor) params.set("cursor", String(config.cursor - safetyMargin))`
CursorParam(cursor) ==
    IF Truthy(cursor) THEN Param(cursor - safetyMargin) ELSE NoParam

\* where the upstream starts sending: at the first event not older than the
\* requested position, or at the live end when no position is requested
StartPos(param, hd) ==
    IF param.present
    THEN IF \E i \in LogIds : Log[i].time_us >= param.value
         THEN CHOOSE i \in LogIds :
                /\ Log[i].time_us >= param.value
                /\ \A j \in LogIds : Log[j].time_us >= param.value => i <= j
         ELSE Len(Log) + 1
    ELSE hd + 1

FreeSockets(w) == { s \in 1..MaxSockets : w.sockets[s].state = "none" }

\* connectJetstream(config): builds the URL and creates the WebSocket; the
\* listeners are the actions SocketMessage, SocketClose and SocketError
connectJetstream(w, cursor) ==
    IF FreeSockets(w) = {}
    THEN [w EXCEPT !.ok = FALSE]
    ELSE LET s == CHOOSE x \in FreeSockets(w) : \A y \in FreeSockets(w) : x <= y
         IN  [w EXCEPT !.sockets[s] = [state |-> "connecting",
                                        param |-> CursorParam(cursor),
                                        pos |-> 0, closeCalls |-> 0,
                                        bad |-> 0, badAt |-> 0,
                                        life |-> w.crashes],
                       !.mem.ws = s]

\* ------------------------------------------------------------ agent.ts
\* this.ws?.readyState === WebSocket.OPEN
WsOpen(w) == w.mem.ws # 0 /\ w.sockets[w.mem.ws].state = "open"

\* connectJetstream without its first line: it connects again while open
Wisp_connectJetstream_noGuard(w) ==
    connectJetstream(
        [w EXCEPT !.mem.connectedAt = w.now,
                  !.mem.eventsReceived = 0,
                  !.mem.eventsHandled = 0],
        w.mem.cursor)

\* a connectJetstream that resets eventsReceived alone
Wisp_connectJetstream_keepsHandled(w) ==
    IF WsOpen(w)
    THEN [w EXCEPT !.noops = 1]
    ELSE connectJetstream(
             [w EXCEPT !.mem.connectedAt = w.now,
                       !.mem.eventsReceived = 0],
             w.mem.cursor)

\* Wisp.connectJetstream
Wisp_connectJetstream(w) ==
    IF WsOpen(w)
    THEN [w EXCEPT !.noops = 1]
    ELSE connectJetstream(
             [w EXCEPT !.mem.connectedAt = w.now,
                       !.mem.eventsReceived = 0,
                       !.mem.eventsHandled = 0],
             w.mem.cursor)

\* an onClose callback that reconnects at once
onClose_reconnects(w) ==
    connectJetstream([w EXCEPT !.mem.connectedAt = w.now], w.mem.cursor)

\* the onClose callback given to connectJetstream
onClose(w) ==
    [w EXCEPT !.mem.ws = 0, !.mem.connectedAt = Undefined]

\* Wisp.scheduleNextAlarm
scheduleNextAlarm(w) ==
    [w EXCEPT !.alarmAt = w.now + DM_POLL_INTERVAL]

\* a prefix test that accepts any uri
StartsWithDid_any(uri, did) == uri # NoUri

\* uri.startsWith(`at://${did}/`); with did unset the prefix is
\* "at://undefined/", which no uri of the model has
StartsWithDid(uri, did) ==
    uri # NoUri /\ did # NoDid /\ uri.author = did

\* a lookup that finds no row
Tracked_none(tt, rootUri) == {}

\* SELECT rootUri FROM tracked_threads WHERE rootUri = ${rootUri}
Tracked(tt, rootUri) == { r \in tt : r.rootUri = rootUri }

\* isRelevantEvent without the test of the operation
isRelevantEvent_anyOperation(agentDid, tt, e) ==
    IF e.kind # "commit" \/ ~e.commit THEN FALSE
    ELSE IF e.collection = FOLLOW THEN e.subject = agentDid
    ELSE IF e.collection = LIKE THEN StartsWithDid(e.subjectUri, agentDid)
    ELSE IF e.collection = POST /\ e.record THEN
        IF e.did = agentDid THEN FALSE
        ELSE IF \E i \in 1..Len(e.facets) :
                    e.facets[i].type = MENTION /\ e.facets[i].did = agentDid
             THEN TRUE
        ELSE IF e.reply THEN
            IF StartsWithDid(e.parent, agentDid) THEN TRUE
            ELSE IF StartsWithDid(e.root, agentDid) THEN TRUE
            ELSE IF e.root # NoUri /\ Tracked(tt, e.root) # {} THEN TRUE
            ELSE FALSE
        ELSE FALSE
    ELSE FALSE

\* isRelevantEvent without the test of the author of a post
isRelevantEvent_noSelfCheck(agentDid, tt, e) ==
    IF e.kind # "commit" \/ ~e.commit THEN FALSE
    ELSE IF e.operation # "create" THEN FALSE
    ELSE IF e.collection = FOLLOW THEN e.subject = agentDid
    ELSE IF e.collection = LIKE THEN StartsWithDid(e.subjectUri, agentDid)
    ELSE IF e.collection = POST /\ e.record THEN
        IF \E i \in 1..Len(e.facets) :
                    e.facets[i].type = MENTION /\ e.facets[i].did = agentDid
             THEN TRUE
        ELSE IF e.reply THEN
            IF StartsWithDid(e.parent, agentDid) THEN TRUE
            ELSE IF StartsWithDid(e.root, agentDid) THEN TRUE
            ELSE IF e.root # NoUri /\ Tracked(tt, e.root) # {} THEN TRUE
            ELSE FALSE
        ELSE FALSE
    ELSE FALSE

\* isRelevantEvent that accepts a follow of anyone
isRelevantEvent_anyFollow(agentDid, tt, e) ==
    IF e.kind # "commit" \/ ~e.commit THEN FALSE
    ELSE IF e.operation # "create" THEN FALSE
    ELSE IF e.collection = FOLLOW THEN e.subject # ""
    ELSE IF e.collection = LIKE THEN StartsWithDid(e.subjectUri, agentDid)
    ELSE IF e.collection = POST /\ e.record THEN
        IF e.did = agentDid THEN FALSE
        ELSE IF \E i \in 1..Len(e.facets) :
                    e.facets[i].type = MENTION /\ e.facets[i].did = agentDid
             THEN TRUE
        ELSE IF e.reply THEN
            IF StartsWithDid(e.parent, agentDid) THEN TRUE
            ELSE IF StartsWithDid(e.root, agentDid) THEN TRUE
            ELSE IF e.root # NoUri /\ Tracked(tt, e.root) # {} THEN TRUE
            ELSE FALSE
        ELSE FALSE
    ELSE FALSE

\* Wisp.isRelevantEvent
isRelevantEvent(agentDid, tt, e) ==
    IF e.kind # "commit" \/ ~e.commit THEN FALSE
    ELSE IF e.operation # "create" THEN FALSE
    ELSE IF e.collection = FOLLOW THEN e.subject = agentDid
    ELSE IF e.collection = LIKE THEN StartsWithDid(e.subjectUri, agentDid)
    ELSE IF e.collection = POST /\ e.record THEN
        IF e.did = agentDid THEN FALSE
        ELSE IF \E i \in 1..Len(e.facets) :
                    e.facets[i].type = MENTION /\ e.facets[i].did = agentDid
             THEN TRUE
        ELSE IF e.reply THEN
            IF StartsWithDid(e.parent, agentDid) THEN TRUE
            ELSE IF StartsWithDid(e.root, agentDid) THEN TRUE
            ELSE IF e.root # NoUri /\ Tracked(tt, e.root) # {} THEN TRUE
            ELSE FALSE
        ELSE FALSE
    ELSE FALSE

\* an INSERT with no ON CONFLICT clause on a table with no key
upsertThread_append(tt, rootUri, t) ==
    tt \cup { [rootUri |-> rootUri, lastActivity |-> t] }

\* INSERT INTO tracked_threads ... ON CONFLICT(rootUri) DO UPDATE SET lastActivity
upsertThread(tt, rootUri, t) ==
    { r \in tt : r.rootUri # rootUri } \cup { [rootUri |-> rootUri, lastActivity |-> t] }

\* Wisp.tickEps
tickEps(w) ==
    LET n == w.mem.epsWindowCount + 1
        w1 == [w EXCEPT !.mem.epsWindowCount = n]
    IN  IF w.mem.epsWindowStart = 0
        THEN [w1 EXCEPT !.mem.epsWindowStart = w.now]
        ELSE IF n % 1000 = 0 /\ w.now - w.mem.epsWindowStart >= 60000
        THEN [w1 EXCEPT !.mem.epsPrevRate = (n * 1000) \div (w.now - w.mem.epsWindowStart),
                        !.mem.epsWindowCount = 0,
                        !.mem.epsWindowStart = w.now]
        ELSE w1

\* maybePersistCursor without the interval test: it writes on every event
maybePersistCursor_unthrottled(w) ==
    LET w1 == [w EXCEPT !.mem.lastCursorPersist = w.now]
    IN  IF Truthy(w1.mem.cursor)
        THEN [w1 EXCEPT !.kv.jetstream_cursor = w1.mem.cursor,
                        !.lastPut = [at |-> w.now, life |-> w.crashes, n |-> @.n + 1]]
        ELSE w1

\* Wisp.maybePersistCursor: ctx.storage.put is not awaited
maybePersistCursor(w) ==
    IF w.now - w.mem.lastCursorPersist > CURSOR_PERSIST_INTERVAL
    THEN LET w1 == [w EXCEPT !.mem.lastCursorPersist = w.now]
         IN  IF Truthy(w1.mem.cursor)
             THEN [w1 EXCEPT !.kv.jetstream_cursor = w1.mem.cursor,
                             !.lastPut = [at |-> w.now, life |-> w.crashes, n |-> @.n + 1]]
             ELSE w1
    ELSE w


\* ------------------------------------------------------------ handler ends
\* the handler's promise settles: the slot is free again
Done(w, h) == [w EXCEPT !.hs[h] = FreeH]

\* an exception leaves the handler (fetch or alarm rejects)
Abort(w, h) == [w EXCEPT !.hs[h] = FreeH]

\* handleEvent returned: for a stream event onEvent returns with it
FinishEvent(w, h) ==
    IF h \in EvSlots
    THEN Done([w EXCEPT !.lastDone = AllEvents[w.hs[h].ev].time_us], h)
    ELSE Done(w, h)

\* an alarm() that returns without setting the alarm
AlarmEnd_noRearm(w, h) == Done(w, h)

\* the last statement of alarm()
AlarmEnd(w, h) == Done(scheduleNextAlarm(w), h)

\* ------------------------------------------------------------ runToolLoop
Threw(w, h) == w.hs[h].pc = "threw"

\* Wisp.runToolLoop up to the call of generateText.  The reads of identity
\* and norms come before the try block: a storage fault there leaves
\* runToolLoop as an exception (pc "threw", for the caller to handle).
runToolLoop(w, h, task) ==
    IF w.inj
    THEN [w EXCEPT !.inj = FALSE,
                   !.faults = @ + 1,
                   !.loopLog = [how |-> "storage", steps |-> 0, returned |-> FALSE],
                   !.hs[h].pc = "threw", !.hs[h].task = task]
    ELSE [w EXCEPT !.hs[h].pc = "gen", !.hs[h].task = task, !.hs[h].steps = 0]

\* a thinking task that does not test the queue of notes
runThinkingTime_anyQueue(w, h) ==
    LET w1 == [w EXCEPT !.kv.last_thinking = w.now, !.looked = TRUE]
        w2 == runToolLoop(w1, h, "thinking")
    IN  IF Threw(w2, h) THEN Abort(w2, h) ELSE w2

\* Wisp.runThinkingTime; notes: a pending note_to_self exists
runThinkingTime(w, h) ==
    IF ~w.notes THEN AlarmEnd([w EXCEPT !.looked = TRUE], h)
    ELSE LET w1 == [w EXCEPT !.kv.last_thinking = w.now, !.looked = TRUE]
             w2 == runToolLoop(w1, h, "thinking")
         IN  IF Threw(w2, h) THEN Abort(w2, h) ELSE w2

\* storage.get<number>(key) ?? 0
OrZero(v) == IF v = Undefined THEN 0 ELSE v

\* alarm(): "Check if thinking time is due" to the end
ThinkingCheck(w, h) ==
    IF w.now - OrZero(w.kv.last_thinking) > THINKING_INTERVAL
    THEN runThinkingTime(w, h)
    ELSE AlarmEnd(w, h)

\* Wisp.runReflection, called by alarm() and by POST /reflect
runReflection(w, h) ==
    LET w1 == runToolLoop(w, h, "reflection")
    IN  IF Threw(w1, h) THEN Abort(w1, h) ELSE w1

\* a reflection check that runs the body and leaves last_reflection alone
ReflectionCheck_noWrite(w, h) ==
    IF w.now - OrZero(w.kv.last_reflection) > REFLECTION_INTERVAL
    THEN runReflection(w, h)
    ELSE ThinkingCheck(w, h)

\* alarm(): "Check if reflection is due" to the end
ReflectionCheck(w, h) ==
    IF w.now - OrZero(w.kv.last_reflection) > REFLECTION_INTERVAL
    THEN runReflection([w EXCEPT !.kv.last_reflection = w.now], h)
    ELSE ThinkingCheck(w, h)

\* a handleEvent that remembers the thread only if the run acted for the event
trackThread_ifActed(w, h) ==
    LET e == AllEvents[w.hs[h].ev]
    IN  IF e.kind = "commit" /\ e.commit /\ e.collection = POST
           /\ e.record /\ e.reply /\ e.root # NoUri /\ w.acts[w.hs[h].ev] > 0
        THEN [w EXCEPT !.tt = upsertThread(@, e.root, w.now)]
        ELSE w

\* handleEvent after runToolLoop: remember the thread of a handled post
trackThread(w, h) ==
    LET e == AllEvents[w.hs[h].ev]
    IN  IF e.kind = "commit" /\ e.commit /\ e.collection = POST
           /\ e.record /\ e.reply /\ e.root # NoUri
        THEN [w EXCEPT !.tt = upsertThread(@, e.root, w.now)]
        ELSE w

\* pollAdminDms after runToolLoop: checkpoint the newest fetched message
checkpointDm(w, h) ==
    LET latest == Inboxes[w.hs[h].msgs][1]
    IN  IF latest.view
        THEN [w EXCEPT !.kv.last_dm_check = latest.sentAt]
        ELSE w

\* runToolLoop returned normally: the caller goes on
AfterLoop(w, h) ==
    LET task == w.hs[h].task
        w1 == [w EXCEPT !.loopLog.returned = TRUE]
    IN  IF task = "event" THEN FinishEvent(trackThread(w1, h), h)
        ELSE IF task = "dm" THEN ReflectionCheck(checkpointDm(w1, h), h)
        ELSE IF task = "reflection"
             THEN IF h = AlarmSlot THEN ThinkingCheck(w1, h) ELSE Done(w1, h)
        ELSE AlarmEnd(w1, h)

\* an exception leaves runToolLoop: handleEvent and pollAdminDms catch it,
\* runReflection and runThinkingTime let it through
Unwind(w, h) ==
    LET task == w.hs[h].task
        w1 == [w EXCEPT !.loopLog.returned = FALSE]
    IN  IF task = "event" THEN FinishEvent(w1, h)
        ELSE IF task = "dm" THEN ReflectionCheck(w1, h)
        ELSE Abort(w1, h)

\* a catch block that throws what it caught
runToolLoopCatch_rethrows(w, h) == Unwind(w, h)

\* the catch block of runToolLoop: generateText rejected (the model call
\* failed, its output was malformed, a tool threw); it logs, and runToolLoop
\* returns
runToolLoopCatch(w, h) == AfterLoop(w, h)

\* runToolLoop after generateText resolved: it logs the steps and returns
runToolLoopLog(w, h) == AfterLoop(w, h)

\* a step count tested after one step too many
stopWhen_offByOne(steps) == steps > StepCap

\* stopWhen: stepCountIs(8): generateText stops once it has made 8 steps
stopWhen(steps) == steps >= StepCap

\* a tool of a step acted on the network for the event (reply, like, ...)
externalAction(w, h) ==
    IF w.hs[h].task = "event" /\ w.acts[w.hs[h].ev] < MaxActs
    THEN [w EXCEPT !.acts[w.hs[h].ev] = @ + 1]
    ELSE w

\* generateText makes one step.  toolCalls: the step asks for tools, which
\* are run (act: one of them acts on the network); otherwise the step is the
\* final answer.  pc "gen_end": generateText has resolved.
generateTextStep(w, h, toolCalls, act) ==
    LET n == w.hs[h].steps + 1
        w1 == [w EXCEPT !.hs[h].steps = n]
        w2 == IF toolCalls /\ act THEN externalAction(w1, h) ELSE w1
    IN  IF toolCalls /\ ~stopWhen(n) THEN w2
        ELSE [w2 EXCEPT !.hs[h].pc = "gen_end",
                        !.loopLog = [how |-> IF toolCalls THEN "cap" ELSE "final",
                                     steps |-> n, returned |-> FALSE]]

\* What the decision procedure will do in a run.  tools: how many steps in a
\* row ask for tools before it ends; end: it then gives its final answer
\* ("final") or fails ("fault"); acts: how many of the tool steps act on the
\* network.  tools > StepCap is a procedure that never stops asking.
Plan(tools, end, n) == [tools |-> tools, end |-> end, acts |-> n]
Plans == { Plan(0, "final", 0), Plan(2, "final", 0), Plan(2, "final", 1),
           Plan(0, "fault", 0), Plan(2, "fault", 1),
           Plan(StepCap - 1, "final", 0), Plan(StepCap + 1, "final", 1) }

\* the plans followed for stream events: an answer at once, two tool steps
\* of which one acts and then an answer, a failure at once
StreamPlans == { Plan(0, "final", 0), Plan(2, "final", 1), Plan(0, "fault", 0) }

\* generateText: the steps the procedure asks for, until a step has no tool
\* calls, stopWhen holds, or the procedure fails (pc "gen_threw")
RECURSIVE generateText(_, _, _)
generateText(w, h, plan) ==
    IF w.hs[h].pc # "gen" THEN w
    ELSE IF plan.tools > 0
    THEN generateText(generateTextStep(w, h, TRUE, plan.acts > 0), h,
                      [plan EXCEPT !.tools = @ - 1,
                                   !.acts = IF @ > 0 THEN @ - 1 ELSE 0])
    ELSE IF plan.end = "final" THEN generateTextStep(w, h, FALSE, FALSE)
    ELSE [w EXCEPT !.hs[h].pc = "gen_threw",
                   !.loopLog = [how |-> "fault", steps |-> w.hs[h].steps,
                                returned |-> FALSE]]

\* runToolLoop from the answer of generateText to its return
runToolLoopEnd(w, h, plan) ==
    LET w1 == generateText(w, h, plan)
    IN  IF w1.hs[h].pc = "gen_threw" THEN runToolLoopCatch(w1, h)
        ELSE runToolLoopLog(w1, h)

\* ------------------------------------------------------------ events
\* Wisp.handleEvent up to the profile lookup
handleEvent(w, h, ev, sock) ==
    [w EXCEPT !.hs[h] = [FreeH EXCEPT !.pc = "profile", !.route = w.hs[h].route,
                                      !.ev = ev, !.sock = sock]]

\* formatEvent: the author named in the prompt, `context?.handle ?? event.did`
\* (handle: the lookup gave a handle)
formatEvent(e, handle) ==
    [author |-> IF handle THEN [handle |-> e.did] ELSE [did |-> e.did],
     did |-> e.did]

\* a handleEvent without the inner try: a failed lookup ends the handling
handleEventProfile_fatal(w, h, found) ==
    IF found
    THEN LET w1 == runToolLoop([w EXCEPT !.hs[h].handle = found], h, "event")
         IN  IF Threw(w1, h) THEN FinishEvent(w1, h) ELSE w1
    ELSE FinishEvent(w, h)

\* handleEvent from the profile lookup's answer to the call of generateText;
\* the lookup's failure is swallowed ("Non-critical")
handleEventProfile(w, h, found) ==
    LET w1 == runToolLoop([w EXCEPT !.hs[h].handle = found], h, "event")
    IN  IF Threw(w1, h) THEN FinishEvent(w1, h) ELSE w1

FreeEvSlots(w) == { h \in EvSlots : w.hs[h].pc = "free" }

\* the onEvent callback given to connectJetstream, for Log[i] from socket s
onEvent(w, s, i) ==
    LET e == Log[i]
        w1 == [w EXCEPT !.mem.cursor = e.time_us,
                        !.mem.eventsReceived = @ + 1]
        w2 == maybePersistCursor(tickEps(w1))
    IN  IF isRelevantEvent(w2.mem.agentDid, w2.tt, e)
        THEN IF FreeEvSlots(w2) = {}
             THEN [w2 EXCEPT !.ok = FALSE]
             ELSE LET h == CHOOSE x \in FreeEvSlots(w2) :
                               \A y \in FreeEvSlots(w2) : x[2] <= y[2]
                  IN  handleEvent([w2 EXCEPT !.mem.eventsHandled = @ + 1], h, i, s)
        ELSE [w2 EXCEPT !.lastDone = e.time_us]

\* ------------------------------------------------------------ requests, alarm
\* fetch() after ensureInitialized
Route(w, h) ==
    LET r == w.hs[h].route
    IN  IF r = "start" THEN Done(scheduleNextAlarm(Wisp_connectJetstream(w)), h)
        ELSE IF r = "reflect" THEN runReflection(w, h)
        ELSE handleEvent(w, h, w.hs[h].ev, 0)

\* Wisp.pollAdminDms up to the first fetch
pollAdminDms(w, h) == [w EXCEPT !.hs[h].pc = "dm_convo"]

\* alarm() after ensureInitialized
AlarmBody(w, h) ==
    pollAdminDms(IF ~WsOpen(w) THEN Wisp_connectJetstream(w) ELSE w, h)

Body(w, h) == IF h = AlarmSlot THEN AlarmBody(w, h) ELSE Route(w, h)

\* Wisp.ensureInitialized up to the login; a handler that finds
\* this.initialized set goes straight on
ensureInitialized(w, h) ==
    IF w.mem.initialized THEN Body(w, h)
    ELSE [w EXCEPT !.mem.initialized = TRUE,
                   !.kv.identity = TRUE,
                   !.kv.norms = TRUE,
                   !.mem.cursor = w.kv.jetstream_cursor,
                   !.hs[h].pc = "login"]

\* msg is an unread message of the admin
Unread(m, lastChecked) ==
    /\ m.view
    /\ m.sender = AdminDid
    /\ ~(lastChecked # Undefined /\ m.sentAt <= lastChecked)

hasUnread(msgs, lastChecked) ==
    \E k \in 1..Len(msgs) : Unread(msgs[k], lastChecked)

\* a storage fault can still be injected
Injections == IF faults < MaxFaults THEN BOOLEAN ELSE { FALSE }

\* ------------------------------------------------------------ actions
\* Inputs of the actions below.  inj: the storage read of the runToolLoop
\* this step reaches (if any) fails.  notes: notes_to_self holds a pending
\* note when this step looks.

\* an inbound request arrives: /start, POST /reflect, POST /event
Fetch(route, ev, inj) ==
    /\ hs[ReqSlot].pc = "free"
    /\ requests < MaxRequests
    /\ LET w == WorldIn(inj, FALSE)
       IN  Commit(ensureInitialized(
               [w EXCEPT !.requests = @ + 1,
                         !.hs[ReqSlot] = [FreeH EXCEPT !.route = route, !.ev = ev]],
               ReqSlot))

\* the alarm fires; the runtime runs one alarm() at a time and keeps the
\* alarm until alarm() has returned
AlarmFire ==
    /\ alarmAt # Undefined
    /\ now >= alarmAt
    /\ hs[AlarmSlot].pc = "free"
    /\ Commit(ensureInitialized(
           [World EXCEPT !.hs[AlarmSlot] = [FreeH EXCEPT !.route = "alarm"]],
           AlarmSlot))

\* credentialManager.login and getSession answer
LoginDone(h, ok, inj) ==
    /\ hs[h].pc = "login"
    /\ LET w == WorldIn(inj, FALSE)
       IN  Commit(IF ok THEN Body([w EXCEPT !.mem.agentDid = AgentDid], h)
                  ELSE Abort(w, h))

\* chat.bsky.convo.getConvoForMembers answers
DmConvoDone(h, ok, inj, notes) ==
    /\ hs[h].pc = "dm_convo"
    /\ LET w == WorldIn(inj, notes)
       IN  Commit(IF ok
                  THEN [w EXCEPT !.hs[h].pc = "dm_msgs",
                                 !.hs[h].lastChecked = w.kv.last_dm_check]
                  ELSE ReflectionCheck(w, h))

\* chat.bsky.convo.getMessages answers
DmMsgsDone(h, ok, inj, notes) ==
    /\ hs[h].pc = "dm_msgs"
    /\ LET w == WorldIn(inj, notes)
       IN  Commit(IF ok /\ hasUnread(Inboxes[inbox], hs[h].lastChecked)
                  THEN LET w1 == runToolLoop([w EXCEPT !.hs[h].msgs = inbox], h, "dm")
                       IN  IF Threw(w1, h) THEN ReflectionCheck(w1, h) ELSE w1
                  ELSE ReflectionCheck(w, h))

\* app.bsky.actor.getProfile answers
ProfileDone(h, found, inj) ==
    /\ hs[h].pc = "profile"
    /\ Commit(handleEventProfile(WorldIn(inj, FALSE), h, found))

\* generateText settles, the decision procedure having followed plan.  Its
\* steps change only the run's own step count and the history of external
\* actions, which no other handler reads, so they are taken together.
GenDone(h, plan, inj, notes) ==
    /\ hs[h].pc = "gen"
    /\ Commit(runToolLoopEnd(WorldIn(inj, notes), h, plan))

\* the socket's connection is established
SocketOpen(s) ==
    /\ sockets[s].state = "connecting"
    /\ sockets' = [sockets EXCEPT ![s].state = "open",
                                  ![s].pos = StartPos(sockets[s].param, head)]
    /\ UNCHANGED << probe, mem, kv, tracked_threads, alarmAt, hs, now, inbox, head,
                    lastDone, lastPut, acts, loopLog, crashes,
                    pendingAtCrash, faults, requests, noops >>

\* the "message" listener, for a frame that parses to the next Log event
SocketMessage(s) ==
    /\ sockets[s].state = "open"
    /\ sockets[s].pos <= Len(Log)
    /\ LET i == sockets[s].pos
           w == [World EXCEPT !.sockets[s].pos = i + 1,
                              !.head = IF i > head THEN i ELSE head]
       IN  Commit(onEvent(w, s, i))

\* a catch block that gives the connection up
messageListenerCatch_closes(w, s) ==
    [w EXCEPT !.sockets[s].state = "closing"]

\* the catch block of the "message" listener: console.error
messageListenerCatch(w, s) == w

\* the "message" listener, for a frame that JSON.parse rejects (or whose
\* data is not a string): onEvent is not reached
SocketBadFrame(s) ==
    /\ sockets[s].state = "open"
    /\ sockets[s].bad < MaxBadFrames
    /\ Commit(messageListenerCatch(
           [World EXCEPT !.sockets[s].bad = @ + 1,
                         !.sockets[s].badAt = sockets[s].pos], s))

\* an "error" listener that also notifies the actor itself
errorListener_notifies(w, s) ==
    onClose([w EXCEPT !.sockets[s].state = "closing",
                      !.sockets[s].closeCalls = @ + 1])

\* the "error" listener: ws.close()
errorListener(w, s) ==
    [w EXCEPT !.sockets[s].state = "closing"]

\* the transport fails
SocketError(s) ==
    /\ sockets[s].state \in { "connecting", "open" }
    /\ Commit(errorListener(World, s))

\* the "close" listener: config.onClose()
closeListener(w, s) ==
    onClose([w EXCEPT !.sockets[s].closeCalls = @ + 1])

\* the socket closes (the peer closed it, or ws.close() has completed)
SocketClose(s) ==
    /\ sockets[s].state \in { "open", "closing" }
    /\ Commit(closeListener([World EXCEPT !.sockets[s].state = "closed"], s))

\* the admin conversation gets a message
InboxGrow ==
    /\ inbox < Len(Inboxes)
    /\ Inboxes[inbox + 1][1].view
    /\ inbox' = inbox + 1
    /\ UNCHANGED << probe, mem, kv, tracked_threads, alarmAt, hs, sockets, now, head,
                    lastDone, lastPut, acts, loopLog, crashes,
                    pendingAtCrash, faults, requests, noops >>

\* the admin conversation gets two messages of the admin, who deletes the
\* later one
InboxDelete ==
    /\ inbox < Len(Inboxes)
    /\ ~Inboxes[inbox + 1][1].view
    /\ inbox' = inbox + 1
    /\ UNCHANGED << probe, mem, kv, tracked_threads, alarmAt, hs, sockets, now, head,
                    lastDone, lastPut, acts, loopLog, crashes,
                    pendingAtCrash, faults, requests, noops >>

\* time passes
Tick ==
    /\ now + TickMs <= Now0 + MaxTicks * TickMs
    /\ now' = now + TickMs
    /\ UNCHANGED << probe, mem, kv, tracked_threads, alarmAt, hs, sockets, inbox, head,
                    lastDone, lastPut, acts, loopLog, crashes,
                    pendingAtCrash, faults, requests, noops >>

\* a restart that loses the tracked_threads table
Crash_wipes ==
    /\ crashes < MaxCrashes
    /\ mem' = Mem0
    /\ hs' = [h \in Slots |-> FreeH]
    /\ sockets' = [s \in 1..MaxSockets |-> NoSocket]
    /\ crashes' = crashes + 1
    /\ pendingAtCrash' = { AllEvents[hs[h].ev].time_us :
                             h \in { x \in EvSlots : hs[x].pc # "free" } }
    /\ tracked_threads' = {}
    /\ UNCHANGED << probe, kv, alarmAt, now, inbox, head, lastDone,
                    lastPut, acts, loopLog, faults, requests, noops >>

\* the process dies and the object is constructed anew: memory, handlers and
\* sockets are gone, storage and the alarm stay
Crash ==
    /\ crashes < MaxCrashes
    /\ mem' = Mem0
    /\ hs' = [h \in Slots |-> FreeH]
    /\ sockets' = [s \in 1..MaxSockets |-> NoSocket]
    /\ crashes' = crashes + 1
    /\ pendingAtCrash' = { AllEvents[hs[h].ev].time_us :
                             h \in { x \in EvSlots : hs[x].pc # "free" } }
    /\ UNCHANGED << probe, kv, tracked_threads, alarmAt, now, inbox, head, lastDone,
                    lastPut, acts, loopLog, faults, requests, noops >>

\* ------------------------------------------------------------ specifications
\* the stream on connections that stay up: events and their handling,
\* restarts
StreamNext ==
    \/ Fetch("start", 0, FALSE)
    \/ \E ok \in BOOLEAN : LoginDone(ReqSlot, ok, FALSE)
    \/ \E h \in EvSlots, found \in BOOLEAN : ProfileDone(h, found, FALSE)
    \/ \E h \in EvSlots, plan \in StreamPlans : GenDone(h, plan, FALSE, FALSE)
    \/ \E s \in 1..MaxSockets : SocketOpen(s)
    \/ \E s \in 1..MaxSockets : SocketMessage(s)
    \/ Tick
    \/ Crash

\* the scheduler and the inbound requests: the alarm and its tasks,
\* POST /reflect, POST /event, storage faults
SchedNext ==
    \/ \E inj \in Injections : Fetch("reflect", 0, inj)
    \/ \E ev \in PostedIds : Fetch("event", ev, FALSE)
    \/ AlarmFire
    \/ \E ok \in BOOLEAN, inj \in Injections, notes \in BOOLEAN :
           DmConvoDone(AlarmSlot, ok, inj, notes)
    \/ \E ok \in BOOLEAN, inj \in Injections, notes \in BOOLEAN :
           DmMsgsDone(AlarmSlot, ok, inj, notes)
    \/ \E found \in BOOLEAN, inj \in Injections : ProfileDone(ReqSlot, found, inj)
    \/ \E plan \in Plans : GenDone(ReqSlot, plan, FALSE, FALSE)
    \/ \E plan \in Plans, inj \in Injections, notes \in BOOLEAN :
           GenDone(AlarmSlot, plan, inj, notes)
    \/ InboxGrow

\* the connection alone, at one clock reading: handlers of relevant events
\* stay suspended
ConnNext ==
    \/ Fetch("start", 0, FALSE)
    \/ \E ok \in BOOLEAN : LoginDone(ReqSlot, ok, FALSE)
    \/ \E s \in 1..MaxSockets : SocketOpen(s)
    \/ \E s \in 1..MaxSockets : SocketMessage(s)
    \/ \E s \in 1..MaxSockets : SocketError(s)
    \/ \E s \in 1..MaxSockets : SocketClose(s)
    \/ Crash

\* the first alarm() of a restarted process logs in
AlarmLogin == \E ok \in BOOLEAN : LoginDone(AlarmSlot, ok, FALSE)

\* the whole actor
Next ==
    \/ StreamNext \/ ConnNext \/ SchedNext \/ AlarmLogin \/ InboxDelete
    \/ \E s \in 1..MaxSockets : SocketBadFrame(s)

Spec == Init /\ [][Next]_vars

\* Every step of the specifications below is a step of Next: each of them is
\* the actor in a narrower environment.

\* the stream alone: no alarm fires, no POST request arrives
StreamSpec == Init /\ [][StreamNext]_vars

ConnSpec == Init /\ [][ConnNext]_vars

\* the cursor alone, on connections that stay up: handlers of relevant
\* events stay suspended
PersistNext ==
    \/ Fetch("start", 0, FALSE)
    \/ \E ok \in BOOLEAN : LoginDone(ReqSlot, ok, FALSE)
    \/ \E s \in 1..MaxSockets : SocketOpen(s)
    \/ \E s \in 1..MaxSockets : SocketMessage(s)
    \/ Tick
    \/ Crash

PersistSpec == Init /\ [][PersistNext]_vars

\* the scheduler and the requests alone: sockets never open
TasksNext ==
    \/ SchedNext
    \/ Fetch("start", 0, FALSE)
    \/ \E ok \in BOOLEAN, inj \in Injections : LoginDone(ReqSlot, ok, inj)
    \/ Tick

SchedSpec == Init /\ [][TasksNext]_vars

\* the decision procedure answers without a tool call, or fails
ThreadPlans == { Plan(0, "final", 0), Plan(0, "fault", 0) }

\* the threads alone, at one clock reading: connections that stay up,
\* events, their handling without external actions, and restarts
ThreadNext ==
    \/ Fetch("start", 0, FALSE)
    \/ \E ok \in BOOLEAN : LoginDone(ReqSlot, ok, FALSE)
    \/ \E h \in EvSlots : ProfileDone(h, TRUE, FALSE)
    \/ \E h \in EvSlots, plan \in ThreadPlans : GenDone(h, plan, FALSE, FALSE)
    \/ \E s \in 1..MaxSockets : SocketOpen(s)
    \/ \E s \in 1..MaxSockets : SocketMessage(s)
    \/ Crash

ThreadSpec == Init /\ [][ThreadNext]_vars

\* ------------------------------------------------------------ the filter and the upsert on their own
\* the events given to isRelevantEvent
REPOST == "app.bsky.feed.repost"
Link(did) == [type |-> "app.bsky.richtext.facet#link", did |-> did]
FacetLists == { << >>, << Mention(AgentDid) >>, << Mention(OtherDid) >>,
                << Link(AgentDid) >>, << Mention(OtherDid), Mention(AgentDid) >> }
Roots == { Uri(AgentDid, "r0"), Uri(ThirdDid, "r1"), Uri(ThirdDid, "r2") }
Parents == { NoUri, Uri(AgentDid, "p0"), Uri(ThirdDid, "p1") }
\* commit.record: missing, without a reply, with a reply
Records ==
    { [record |-> FALSE, subject |-> "", subjectUri |-> NoUri, facets |-> << >>,
       reply |-> FALSE, parent |-> NoUri, root |-> NoUri] }
    \cup { [record |-> TRUE, subject |-> sj, subjectUri |-> su, facets |-> f,
            reply |-> FALSE, parent |-> NoUri, root |-> NoUri] :
              sj \in { "", AgentDid, OtherDid },
              su \in { NoUri, Uri(AgentDid, "p0"), Uri(ThirdDid, "p1") },
              f \in FacetLists }
    \cup { [record |-> TRUE, subject |-> sj, subjectUri |-> su, facets |-> f,
            reply |-> TRUE, parent |-> pa, root |-> ro] :
              sj \in { "", AgentDid, OtherDid },
              su \in { NoUri, Uri(AgentDid, "p0"), Uri(ThirdDid, "p1") },
              f \in FacetLists, pa \in Parents, ro \in Roots \cup { NoUri } }
Events ==
    { Event(did, Log[1].time_us, kind, commit, op, coll, r.record, r.subject,
            r.subjectUri, r.facets, r.reply, r.parent, r.root) :
        did \in { AgentDid, OtherDid }, kind \in { "commit", "identity" },
        commit \in BOOLEAN, op \in { "create", "delete" },
        coll \in { POST, LIKE, FOLLOW, REPOST }, r \in Records }

\* values of Date.now() given to an upsert
MaxTime == 3
\* upserts made in one behaviour
MaxUpserts == 2

\* the tracked_threads table: rootUri is its primary key
Tables ==
    { { [rootUri |-> r, lastActivity |-> f[r]] : r \in R } :
        R \in SUBSET { Uri(ThirdDid, "r1"), Uri(ThirdDid, "r2") },
        f \in [ { Uri(ThirdDid, "r1"), Uri(ThirdDid, "r2") } -> 1..2 ] }

\* the actor after a successful login, holding some table
Started(tt) ==
    /\ mem = [Mem0 EXCEPT !.initialized = TRUE, !.agentDid = AgentDid]
    /\ kv = [Kv0 EXCEPT !.identity = TRUE, !.norms = TRUE]
    /\ tracked_threads = tt
    /\ alarmAt = Undefined
    /\ hs = [h \in Slots |-> FreeH]
    /\ sockets = [s \in 1..MaxSockets |-> NoSocket]
    /\ now = Now0
    /\ inbox = 1
    /\ head = 0
    /\ lastDone = Undefined
    /\ lastPut = NoPut
    /\ acts = [e \in EvIds |-> 0]
    /\ loopLog = NoRun
    /\ crashes = 0
    /\ pendingAtCrash = {}
    /\ faults = 0
    /\ requests = 0
    /\ noops = 0

FilterInit ==
    \E tt \in { {}, { [rootUri |-> Uri(ThirdDid, "r1"), lastActivity |-> 1] } },
       e \in Events :
        /\ Started(tt)
        /\ probe = [NoProbe EXCEPT !.e = e, !.tt0 = tt]

\* a call of isRelevantEvent that also counts the event as handled
Judge_counts ==
    /\ ~probe.judged
    /\ probe' = [probe EXCEPT !.judged = TRUE,
                              !.relevant = isRelevantEvent(mem.agentDid, tracked_threads, probe.e)]
    /\ mem' = [mem EXCEPT !.eventsHandled = @ + 1]
    /\ UNCHANGED << kv, tracked_threads, alarmAt, hs, sockets, now, inbox,
                    head, lastDone, lastPut, acts, loopLog, crashes,
                    pendingAtCrash, faults, requests, noops >>

\* isRelevantEvent is called on the event
Judge ==
    /\ ~probe.judged
    /\ probe' = [probe EXCEPT !.judged = TRUE,
                              !.relevant = isRelevantEvent(mem.agentDid, tracked_threads, probe.e)]
    /\ UNCHANGED << mem, kv, tracked_threads, alarmAt, hs, sockets, now, inbox,
                    head, lastDone, lastPut, acts, loopLog, crashes,
                    pendingAtCrash, faults, requests, noops >>

FilterSpec == FilterInit /\ [][Judge]_vars

UpsertInit ==
    \E tt \in Tables :
        /\ Started(tt)
        /\ probe = [NoProbe EXCEPT !.tt0 = tt]

\* the upsert of handleEvent is made for rootUri at time t
Upsert(rootUri, t) ==
    /\ Len(probe.ups) < MaxUpserts
    /\ tracked_threads' = upsertThread(tracked_threads, rootUri, t)
    /\ probe' = [probe EXCEPT !.ups = Append(@, [rootUri |-> rootUri, t |-> t])]
    /\ UNCHANGED << mem, kv, alarmAt, hs, sockets, now, inbox,
                    head, lastDone, lastPut, acts, loopLog, crashes,
                    pendingAtCrash, faults, requests, noops >>

UpsertSpec ==
    UpsertInit /\ [][\E r \in { Uri(ThirdDid, "r1"), Uri(ThirdDid, "r2") },
                        t \in 1..MaxTime : Upsert(r, t)]_vars

\* ------------------------------------------------------------ claims

\* C1: no event is lost across a restart.  The position requested by the
\* first connection after a crash (persisted cursor minus the safety margin)
\* is present and <= the time_us of every relevant stream event whose
\* handling had not completed when the process crashed.
C1_NoEventLostAcrossRestart ==
    (crashes > 0 /\ sockets[1].state # "none") =>
        \A t \in pendingAtCrash :
            sockets[1].param.present /\ sockets[1].param.value <= t

\* C2: the cursor in durable storage is <= the time_us of the most recently
\* fully processed stream event: it is never persisted for an event whose
\* handling has not finished.
C2_PersistedCursorProcessed ==
    Truthy(kv.jetstream_cursor) =>
        (lastDone # Undefined /\ kv.jetstream_cursor <= lastDone)

\* the handlers that are inside the body of a task
Running(task) == { h \in Slots : hs[h].pc = "gen" /\ hs[h].task = task }

\* C3: the same named task (admin-DM poll, reflection, thinking) is never
\* running twice at once, whether the second run is started by the alarm or
\* by the /reflect request.
C3_NoTaskRunsTwice ==
    \A task \in { "dm", "reflection", "thinking" } : Cardinality(Running(task)) <= 1

\* C4: a run of the action loop ends after at most 8 steps, also when the
\* decision procedure asks for tools at every step and never answers.
C4_StepCapRespected ==
    /\ loopLog.steps <= 8
    /\ \A h \in Slots : hs[h].steps <= 8

\* C4 witness: a run was stopped by the cap, at its 8th step of tool calls
C4_Witness == loopLog.how = "cap" /\ loopLog.steps = 8

\* C5 as stated: runToolLoop never throws outward: whatever failed during the
\* last run (the decision procedure, a tool, the storage read of identity and
\* norms), the run returned normally to its caller.
C5_LoopNeverThrows ==
    loopLog.how # "" => loopLog.returned

\* C5 as amended: a run that got past the storage reads of identity and norms
\* returned normally to its caller, whether generateText resolved (final
\* answer, step cap) or rejected (decision procedure or tool failure).
C5_LoopCatchesDecisionFaults ==
    loopLog.how \in { "final", "cap", "fault" } => loopLog.returned

\* C5 witness: generateText rejected after two steps of tool calls, and the
\* run returned
C5_Witness ==
    loopLog = [how |-> "fault", steps |-> 2, returned |-> TRUE]

\* C6: a connection opened while the actor holds a cursor T asks the upstream
\* for exactly T - 10,000,000; one opened without a cursor asks for no position.
C6_ResumePosition ==
    [][\A s \in 1..MaxSockets :
          (sockets[s].state = "none" /\ sockets'[s].state = "connecting") =>
              sockets'[s].param =
                  IF mem.cursor # Undefined
                  THEN [present |-> TRUE, value |-> mem.cursor - 10000000]
                  ELSE [present |-> FALSE, value |-> 0]]_vars

\* C6 witness: a connection has been opened from the cursor of the first Log
\* event, 10 s back
C6_Witness ==
    \E s \in 1..MaxSockets :
        /\ sockets[s].state = "connecting"
        /\ mem.cursor = Log[1].time_us
        /\ sockets[s].param = [present |-> TRUE, value |-> Log[1].time_us - 10000000]

\* C7: handling a redelivered event again leaves the external actions taken
\* for it as one handling leaves them (one handling acts at most once).
C7_ReprocessingIdempotent ==
    \A e \in LogIds : acts[e] <= 1

\* a step in which maybePersistCursor wrote the cursor to storage
CursorPut == lastPut'.n = lastPut.n + 1

\* C8 as stated: two durable writes of the cursor are never less than the
\* persist interval (30 s) apart.
C8_RateLimited ==
    [][(CursorPut /\ lastPut.n > 0) => now' - lastPut.at >= 30000]_vars

\* C8 as amended: two durable writes of the cursor by one process lifetime
\* are never less than the persist interval (30 s) apart.
C8_RateLimitedPerLifetime ==
    [][(CursorPut /\ lastPut.n > 0 /\ lastPut.life = crashes) =>
           now' - lastPut.at >= 30000]_vars

\* C8 witness: a lifetime that received all three Log events has written
\* the cursor twice, and not a third time
C8_Witness ==
    /\ crashes = 0
    /\ lastPut.n = 2
    /\ mem.eventsReceived = Len(Log)

\* a step that calls Wisp.connectJetstream from the /start request
StartConnects ==
    \/ mem.initialized /\ Fetch("start", 0, FALSE)
    \/ hs[ReqSlot].route = "start" /\ LoginDone(ReqSlot, TRUE, FALSE)

\* C9: a connect call made while the connection is open creates no socket and
\* leaves the handle, connectedAt and the event counters as they were.
C9_ConnectWhileOpenIsNoop ==
    [][(StartConnects /\ mem.ws # 0 /\ sockets[mem.ws].state = "open") =>
           /\ sockets' = sockets
           /\ mem'.ws = mem.ws
           /\ mem'.connectedAt = mem.connectedAt
           /\ mem'.eventsReceived = mem.eventsReceived
           /\ mem'.eventsHandled = mem.eventsHandled]_vars

\* C9 witness: a connect call has returned early, the connection being open
\* with an event received on it
C9_Witness ==
    /\ noops = 1
    /\ mem.ws # 0
    /\ sockets[mem.ws].state = "open"
    /\ mem.eventsReceived > 0

\* C10: onClose has run exactly once for a closed connection and not at all
\* for one that has not closed, whether an error came before the close or not.
C10_OnCloseOnce ==
    \A s \in 1..MaxSockets :
        /\ sockets[s].state = "closed" => sockets[s].closeCalls = 1
        /\ sockets[s].state \in { "connecting", "open", "closing" } =>
               sockets[s].closeCalls = 0

\* C10 witness: two connections have closed, each notified once
C10_Witness ==
    \A s \in 1..2 : sockets[s].state = "closed" /\ sockets[s].closeCalls = 1


\* the event judged is a create commit
JudgedCreate ==
    /\ probe.judged
    /\ probe.e.kind = "commit"
    /\ probe.e.commit
    /\ probe.e.operation = "create"

\* C11: an event whose kind is not commit, or that has no commit payload, or
\* whose operation is not create, is judged not relevant, whatever its
\* collection, author and record.
C11_OnlyCreateCommits ==
    (probe.judged /\ (probe.e.kind # "commit" \/ ~probe.e.commit
                      \/ probe.e.operation # "create"))
        => ~probe.relevant

\* C11 witness: the deletion of a follow of the actor has been judged
C11_Witness ==
    /\ probe.judged
    /\ probe.e.kind = "commit" /\ probe.e.commit /\ probe.e.operation = "delete"
    /\ probe.e.collection = FOLLOW /\ probe.e.subject = AgentDid
    /\ ~probe.relevant

\* C12: a post-create event whose author is the actor itself is judged not
\* relevant, whatever it mentions, replies to, or whichever thread it is in.
C12_OwnPostsIrrelevant ==
    (JudgedCreate /\ probe.e.collection = POST /\ probe.e.did = mem.agentDid)
        => ~probe.relevant

\* C12 witness: a post of the actor that mentions the actor, replies to a
\* post of the actor and is in a tracked thread has been judged
C12_Witness ==
    /\ JudgedCreate /\ probe.e.collection = POST /\ probe.e.did = AgentDid
    /\ probe.e.facets = << Mention(AgentDid) >>
    /\ probe.e.parent = Uri(AgentDid, "p0")
    /\ probe.e.root = Uri(ThirdDid, "r1")
    /\ tracked_threads # {}
    /\ ~probe.relevant

\* C13 as stated: a create event of any collection (post, like, follow)
\* whose author is the actor itself is never judged relevant.
C13_NoSelfResponse ==
    (JudgedCreate /\ probe.e.collection \in { POST, LIKE, FOLLOW }
                  /\ probe.e.did = mem.agentDid)
        => ~probe.relevant

\* C13 as amended: a create event whose author is the actor itself is judged
\* relevant only if it is a like of a post of the actor or a follow of the
\* actor; a post of the actor never is.
C13_NoSelfResponseToPosts ==
    (JudgedCreate /\ probe.e.did = mem.agentDid /\ probe.relevant) =>
        \/ probe.e.collection = LIKE /\ probe.e.subjectUri.author = mem.agentDid
        \/ probe.e.collection = FOLLOW /\ probe.e.subject = mem.agentDid

\* C13 witness: a reply of the actor to its own post, in its own thread, has
\* been judged not relevant
C13_Witness ==
    /\ JudgedCreate /\ probe.e.collection = POST /\ probe.e.did = AgentDid
    /\ probe.e.facets = << >>
    /\ probe.e.parent = Uri(AgentDid, "p0")
    /\ probe.e.root = Uri(AgentDid, "r0")
    /\ ~probe.relevant

\* C14: a post-create event with a record, by another author, is judged
\* relevant iff a mention feature names the actor, or the reply parent is a
\* post of the actor, or the reply root is a post of the actor, or the reply
\* root is a key of tracked_threads.
C14_PostRelevance ==
    (JudgedCreate /\ probe.e.collection = POST /\ probe.e.record
                  /\ probe.e.did # mem.agentDid) =>
        (probe.relevant <=>
            \/ \E i \in 1..Len(probe.e.facets) :
                   probe.e.facets[i] = [type |-> MENTION, did |-> mem.agentDid]
            \/ probe.e.parent.author = mem.agentDid
            \/ probe.e.root.author = mem.agentDid
            \/ probe.e.root \in { row.rootUri : row \in tracked_threads })

\* C14 witness: a reply by another author that is relevant by its tracked
\* root alone has been judged
C14_Witness ==
    /\ JudgedCreate /\ probe.e.collection = POST /\ probe.e.did = OtherDid
    /\ probe.e.facets = << Mention(OtherDid) >>
    /\ probe.e.parent = Uri(ThirdDid, "p1")
    /\ probe.e.root = Uri(ThirdDid, "r1")
    /\ probe.relevant

\* C15: a follow-create event is judged relevant iff the subject of the
\* follow is the actor; a missing subject is not.
C15_FollowRelevance ==
    (JudgedCreate /\ probe.e.collection = FOLLOW) =>
        (probe.relevant <=> probe.e.subject = mem.agentDid)

\* C15 witness: a follow of the actor by another account has been judged
\* relevant
C15_Witness ==
    /\ JudgedCreate /\ probe.e.collection = FOLLOW
    /\ probe.e.did = OtherDid /\ probe.e.subject = AgentDid
    /\ probe.relevant

\* C16: a like-create event is judged relevant iff the uri liked is one of
\* the actor's (at://<actor>/...); a create event of a collection other than
\* follow, like and post is judged not relevant.
C16_LikeRelevance ==
    JudgedCreate =>
        /\ probe.e.collection = LIKE =>
               (probe.relevant <=> probe.e.subjectUri.author = mem.agentDid)
        /\ probe.e.collection \notin { FOLLOW, LIKE, POST } => ~probe.relevant

\* C16 witness: a like of a third account's post has been judged not relevant
C16_Witness ==
    /\ JudgedCreate /\ probe.e.collection = LIKE
    /\ probe.e.subjectUri = Uri(ThirdDid, "p1")
    /\ ~probe.relevant

\* C18: after upsert(rootId, t1) then upsert(rootId, t2) with t2 > t1 the
\* table holds exactly one entry for rootId, its lastActivity is t2, and the
\* entries of the other roots are as before.
C18_UpsertLastWriteWins ==
    (/\ Len(probe.ups) = 2
     /\ probe.ups[1].rootUri = probe.ups[2].rootUri
     /\ probe.ups[2].t > probe.ups[1].t) =>
        LET r == probe.ups[2].rootUri
        IN  /\ { row \in tracked_threads : row.rootUri = r }
                   = { [rootUri |-> r, lastActivity |-> probe.ups[2].t] }
            /\ { row \in tracked_threads : row.rootUri # r }
                   = { row \in probe.tt0 : row.rootUri # r }

\* C18 witness: a root already in the table, beside another one, has been
\* upserted at 1 and then at 3
C18_Witness ==
    /\ Len(probe.ups) = 2
    /\ probe.ups[1] = [rootUri |-> Uri(ThirdDid, "r1"), t |-> 1]
    /\ probe.ups[2] = [rootUri |-> Uri(ThirdDid, "r1"), t |-> 3]
    /\ Cardinality(probe.tt0) = 2
    /\ Cardinality(tracked_threads) = 2


\* a reply by another author in the thread of a root that tracked_threads holds
ReplyInTracked(e) ==
    /\ e.kind = "commit" /\ e.commit /\ e.operation = "create"
    /\ e.collection = POST /\ e.record /\ e.reply
    /\ e.did # AgentDid
    /\ e.root \in { row.rootUri : row \in tracked_threads }

\* C17: a root that tracked_threads holds stays in it in every later state
\* (no step removes it, a restart included), and every post-create event by
\* another author with that reply root that the stream delivers is judged
\* relevant and handled.
C17_TrackedRootsStay ==
    [][/\ \A row \in tracked_threads :
              \E kept \in tracked_threads' : kept.rootUri = row.rootUri
       /\ \A s \in 1..MaxSockets :
              (SocketMessage(s) /\ ReplyInTracked(Log[sockets[s].pos])) =>
                  /\ mem'.eventsHandled = mem.eventsHandled + 1
                  /\ \E h \in EvSlots : /\ hs[h].pc = "free"
                                        /\ hs'[h].pc = "profile"
                                        /\ hs'[h].ev = sockets[s].pos]_vars

\* C17 witness: in a restarted process, a reply that neither mentions the
\* actor nor answers a post of the actor is being handled, its root being
\* tracked
C17_Witness ==
    /\ crashes = 1
    /\ \E h \in EvSlots : hs[h].pc = "profile" /\ AllEvents[hs[h].ev] = EvReply(50000000)
    /\ \E row \in tracked_threads : row.rootUri = EvReply(50000000).root


\* C19: the action loop runs for an event only if isRelevantEvent judged the
\* event relevant: every handleEvent in progress, whichever way its event
\* reached the actor, holds an event that the filter judges relevant.
C19_OnlyRelevantHandled ==
    \A h \in Slots :
        (hs[h].pc \in { "profile", "gen" } /\ hs[h].ev # 0) =>
            isRelevantEvent(mem.agentDid, tracked_threads, AllEvents[hs[h].ev])

\* C20: the handling of stream event n+1 does not start before the handling
\* of event n has finished: while a handler of an event is in progress, its
\* socket has delivered no later event.
C20_OneEventAtATime ==
    \A h \in EvSlots :
        (hs[h].pc # "free" /\ sockets[hs[h].sock].state = "open") =>
            sockets[hs[h].sock].pos = hs[h].ev + 1


\* the handler invocations in progress
InProgress == { h \in Slots : hs[h].pc # "free" }

\* C21: at most one handler invocation (stream event, alarm, inbound request)
\* is in progress at any time, suspension points included.
C21_OneHandlerAtATime ==
    Cardinality(InProgress) <= 1

\* C22: neither the in-memory cursor nor the persisted cursor ever takes a
\* value smaller than the one it held, over events, restarts and reconnects.
C22_CursorMonotonic ==
    [][/\ (Truthy(mem.cursor) /\ Truthy(mem'.cursor)) => mem'.cursor >= mem.cursor
       /\ (Truthy(kv.jetstream_cursor) /\ Truthy(kv'.jetstream_cursor)) =>
              kv'.jetstream_cursor >= kv.jetstream_cursor]_vars


\* this step ends an invocation of alarm() (the process did not crash)
AlarmEnds ==
    /\ hs[AlarmSlot].pc # "free"
    /\ hs'[AlarmSlot].pc = "free"
    /\ crashes' = crashes

\* the actor has been started: a POST /start request has set the alarm
ActorStarted == alarmAt # Undefined

ReconnNext ==
    \/ Fetch("start", 0, FALSE)
    \/ \E ok \in BOOLEAN : LoginDone(ReqSlot, ok, FALSE)
    \/ \E s \in 1..MaxSockets : SocketOpen(s)
    \/ \E s \in 1..MaxSockets : SocketError(s)
    \/ \E s \in 1..MaxSockets : SocketClose(s)
    \/ Tick
    \/ AlarmFire
    \/ DmConvoDone(AlarmSlot, FALSE, FALSE, FALSE)
    \/ \E notes \in BOOLEAN : GenDone(AlarmSlot, Plan(0, "final", 0), FALSE, notes)

\* time passes and the runtime fires an alarm that is due
ReconnSpec ==
    Init /\ [][ReconnNext]_vars /\ WF_vars(Tick) /\ WF_vars(AlarmFire)

\* the sockets this step creates
Created == { s \in 1..MaxSockets : sockets[s].state = "none" /\ sockets'[s].state # "none" }

\* the connection is down and a tick is still to come that can reconnect
Dropped ==
    /\ ActorStarted
    /\ ~WsOpen(World)
    /\ hs[AlarmSlot].pc = "free"
    /\ alarmAt <= Now0 + MaxTicks * TickMs
    /\ FreeSockets(World) # {}

\* this.ws is a connection being established
Attempting == mem.ws # 0 /\ sockets[mem.ws].state = "connecting"

\* C24: the close and error handlers create no connection; a tick creates one
\* connection when the handle is absent or not open and none when it is
\* open; so a dropped connection is attempted again while ticks keep firing.
C24_ReconnectOnTickOnly ==
    /\ [][/\ (\E s \in 1..MaxSockets : SocketError(s) \/ SocketClose(s)) =>
                Created = {}
          /\ (AlarmFire /\ mem.initialized) =>
                IF WsOpen(World)
                THEN sockets' = sockets /\ mem'.ws = mem.ws
                ELSE /\ Cardinality(Created) = 1
                     /\ mem'.ws \in Created
                     /\ sockets'[mem'.ws].state = "connecting"]_vars
    /\ Dropped ~> Attempting

\* C24 witness: the first connection failed and closed, nothing reconnected
\* until the tick, whose alarm() made the second connection
C24_Witness ==
    /\ sockets[1].state = "closed"
    /\ sockets[2].state = "connecting"
    /\ mem.ws = 2
    /\ requests = 1
    /\ hs[AlarmSlot].pc # "free"


\* ------------------------------------------------------------ the tick
\* the scheduler across restarts: the alarm and its three tasks, the admin
\* conversation, storage faults and restarts; connections stay unanswered
AlarmNext ==
    \/ Fetch("start", 0, FALSE)
    \/ \E ok \in BOOLEAN : LoginDone(ReqSlot, ok, FALSE)
    \/ AlarmLogin
    \/ Tick
    \/ AlarmFire
    \/ \E ok \in BOOLEAN, inj \in Injections, notes \in BOOLEAN :
           DmConvoDone(AlarmSlot, ok, inj, notes)
    \/ \E ok \in BOOLEAN, inj \in Injections, notes \in BOOLEAN :
           DmMsgsDone(AlarmSlot, ok, inj, notes)
    \/ \E plan \in ThreadPlans, inj \in Injections, notes \in BOOLEAN :
           GenDone(AlarmSlot, plan, inj, notes)
    \/ InboxGrow
    \/ InboxDelete
    \/ Crash

AlarmSpec == Init /\ [][AlarmNext]_vars


\* alarm() is in its DM poll
InDmPoll(h) ==
    \/ h.pc \in { "dm_convo", "dm_msgs" }
    \/ h.pc = "gen" /\ h.task = "dm"

\* this step takes alarm() from the DM poll to the reflection check
ReflectionChecked ==
    /\ InDmPoll(hs[AlarmSlot])
    /\ ~InDmPoll(hs'[AlarmSlot])
    /\ crashes' = crashes

ReflectionDue == now - OrZero(kv.last_reflection) > REFLECTION_INTERVAL

\* the reflection body of the alarm is running
Reflecting(h) == h.pc = "gen" /\ h.task = "reflection"

\* C25: the tick's reflection body starts only if now - last_reflection > 6 h
\* and with last_reflection = now already written; a tick at which it is due
\* writes last_reflection and starts the body (unless a storage fault ends
\* the handler), a tick at which it is not due does neither; a restart keeps
\* last_reflection, so the tick after a crash in the body judges by that write.
C25_ReflectionDueAndMarked ==
    [][/\ (Reflecting(hs'[AlarmSlot]) /\ ~Reflecting(hs[AlarmSlot])) =>
              ReflectionDue /\ kv'.last_reflection = now
       /\ (ReflectionChecked /\ ReflectionDue) =>
              /\ kv'.last_reflection = now
              /\ Reflecting(hs'[AlarmSlot]) \/ faults' = faults + 1
       /\ (ReflectionChecked /\ ~ReflectionDue) =>
              /\ kv'.last_reflection = kv.last_reflection
              /\ ~Reflecting(hs'[AlarmSlot])
       /\ crashes' # crashes => kv'.last_reflection = kv.last_reflection]_vars

\* C25 witness: the process crashed in the reflection body (last_reflection
\* written, no action-loop run ever ended); the alarm of the restarted
\* process has returned without running reflection again
C25_Witness ==
    /\ crashes = 1
    /\ requests = 1
    /\ loopLog = NoRun
    /\ kv.last_reflection # Undefined
    /\ hs[AlarmSlot].pc = "free"
    /\ alarmAt = now + DM_POLL_INTERVAL


\* alarm() takes a step after a request or the decision procedure answered
TickStep ==
    /\ hs[AlarmSlot].pc \in { "dm_convo", "dm_msgs", "gen" }
    /\ hs'[AlarmSlot] # hs[AlarmSlot]
    /\ crashes' = crashes

\* the step of alarm() made when the queue of notes, if the step reads it,
\* holds a pending note (notes) or none
TickStepWith(notes) ==
    \E ok \in BOOLEAN, inj \in BOOLEAN :
        \/ DmConvoDone(AlarmSlot, ok, inj, notes)
        \/ DmMsgsDone(AlarmSlot, ok, inj, notes)
        \/ \E plan \in ThreadPlans : GenDone(AlarmSlot, plan, inj, notes)

ThinkingDue == now - OrZero(kv.last_thinking) > THINKING_INTERVAL

\* the thinking body of the alarm is running
Thinking(h) == h.pc = "gen" /\ h.task = "thinking"

\* C26: a step of the tick that reads the queue of notes and finds a pending
\* note does so with now - last_thinking > 2 h, writes last_thinking = now
\* and starts the thinking body (unless a storage fault ends the handler); a
\* step that finds the queue empty, or does not read it because the check is
\* not due, starts no thinking body and leaves last_thinking unchanged.
C26_ThinkingDueAndQueued ==
    [][TickStep =>
          /\ TickStepWith(TRUE) =>
                /\ ThinkingDue
                /\ kv'.last_thinking = now
                /\ Thinking(hs'[AlarmSlot]) \/ faults' = faults + 1
          /\ TickStepWith(FALSE) =>
                /\ kv'.last_thinking = kv.last_thinking
                /\ ~Thinking(hs'[AlarmSlot])]_vars

\* C26 witness: the thinking body is running, last_thinking written at this
\* clock reading, after the reflection run of the same tick has ended
C26_Witness ==
    /\ Thinking(hs[AlarmSlot])
    /\ kv.last_thinking = now
    /\ kv.last_reflection = now
    /\ loopLog.how = "final"


\* C27: a thread root is in tracked_threads only if the actor acted on the
\* network (a reply at the least) while handling an event of that thread; an
\* inbound reply whose run made no tool call, or failed, tracks nothing.
C27_TrackedOnlyWhereReplied ==
    \A r \in tracked_threads :
        \E e \in EvIds : AllEvents[e].root = r.rootUri /\ acts[e] > 0


\* the action loop of the DM poll is running
RunsDm(h) == h.pc = "gen" /\ h.task = "dm"

\* this step ends the action loop of the DM poll
DmRunEnds ==
    /\ RunsDm(hs[AlarmSlot])
    /\ hs'[AlarmSlot] # hs[AlarmSlot]
    /\ crashes' = crashes

\* C28: when the action loop that the DM poll started for an unread message
\* of the admin ends, the newest fetched message's sentAt is persisted as
\* last_dm_check.
C28_CheckpointAfterRun ==
    [][DmRunEnds =>
          kv'.last_dm_check = Inboxes[hs[AlarmSlot].msgs][1].sentAt]_vars


\* ------------------------------------------------------------ frames
\* one clock reading, connections that stay up and receive frames, some of
\* which do not parse; handlers of relevant events stay suspended
FrameNext ==
    \/ Fetch("start", 0, FALSE)
    \/ \E ok \in BOOLEAN : LoginDone(ReqSlot, ok, FALSE)
    \/ \E s \in 1..MaxSockets : SocketOpen(s)
    \/ \E s \in 1..MaxSockets : SocketMessage(s)
    \/ \E s \in 1..MaxSockets : SocketBadFrame(s)

FrameSpec == Init /\ [][FrameNext]_vars

\* this step is the message listener receiving a frame that does not parse
BadFrameOn(s) == sockets'[s].bad = sockets[s].bad + 1

\* C29: a frame that fails to parse has no effect: the connection stays open
\* with the same next frame to deliver, no handler starts, and the cursor,
\* the counters, the storage, the threads and the alarm are unchanged.
C29_BadFrameDropped ==
    [][\A s \in 1..MaxSockets : BadFrameOn(s) =>
           /\ sockets'[s].state = "open"
           /\ sockets'[s].pos = sockets[s].pos
           /\ sockets'[s].closeCalls = sockets[s].closeCalls
           /\ \A t \in 1..MaxSockets : t # s => sockets'[t] = sockets[t]
           /\ hs' = hs
           /\ mem' = mem
           /\ kv' = kv
           /\ tracked_threads' = tracked_threads
           /\ alarmAt' = alarmAt
           /\ lastDone' = lastDone]_vars

\* C29 witness: a frame that did not parse came before the first event on a
\* connection, which is still open and has since delivered all three events
C29_Witness ==
    \E s \in 1..MaxSockets :
        /\ sockets[s].state = "open"
        /\ sockets[s].bad = 1
        /\ sockets[s].badAt = 1
        /\ sockets[s].pos = Len(Log) + 1
        /\ mem.eventsReceived = Len(Log)

\* C30: a frame that does not parse closes the connection, as a transport
\* error does: after it the socket is closing or closed.
C30_BadFrameCloses ==
    [][\A s \in 1..MaxSockets : BadFrameOn(s) =>
           sockets'[s].state \in { "closing", "closed" }]_vars


\* the action loop of handleEvent is running in the request handler
RunsEvent(h) == h.pc = "gen" /\ h.task = "event"

\* C31: whatever the profile lookup answers, handleEvent goes on to the action
\* loop (unless a storage fault ends runToolLoop); after a failed lookup the
\* prompt names the author by its did; and when that loop ends the thread
\* root of the handled reply is upserted.
C31_LookupFailureNonFatal ==
    [][/\ (hs[ReqSlot].pc = "profile" /\ hs'[ReqSlot] # hs[ReqSlot]) =>
              RunsEvent(hs'[ReqSlot]) \/ faults' = faults + 1
       /\ (RunsEvent(hs'[ReqSlot]) /\ ~hs'[ReqSlot].handle) =>
              formatEvent(AllEvents[hs'[ReqSlot].ev], hs'[ReqSlot].handle).author
                  = [did |-> AllEvents[hs'[ReqSlot].ev].did]
       /\ (RunsEvent(hs[ReqSlot]) /\ ~hs[ReqSlot].handle
               /\ hs'[ReqSlot] # hs[ReqSlot]) =>
              [rootUri |-> AllEvents[hs[ReqSlot].ev].root, lastActivity |-> now]
                  \in tracked_threads']_vars

\* C31 witness: the lookup failed and the action loop is running for the
\* event, a reply in a thread
C31_Witness ==
    /\ RunsEvent(hs[ReqSlot])
    /\ ~hs[ReqSlot].handle
    /\ AllEvents[hs[ReqSlot].ev].root # NoUri


\* a storage read of this step failed
StorageFault == faults' = faults + 1

\* C32: a durable-storage fault is fatal to the handler it occurs in: the
\* handler whose step met the fault ends with it and does not go on.
C32_StorageFaultFatal ==
    [][StorageFault =>
           \A h \in Slots : hs'[h] # hs[h] => hs'[h].pc = "free"]_vars


\* the event reaches `if (reply)` in isRelevantEvent: a created post with a
\* record that has a reply
OnReplyBranch(e) ==
    /\ e.kind = "commit" /\ e.commit /\ e.operation = "create"
    /\ e.collection = POST /\ e.record /\ e.reply

Live == { s \in 1..MaxSockets : sockets[s].state \in { "connecting", "open" } }

\* C34: at most one socket created by the actor is connecting or open at any
\* time.
C34_OneLiveSocket ==
    Cardinality(Live) <= 1

\* this step runs the close notification of socket s
ClosedOn(s) == sockets'[s].closeCalls = sockets[s].closeCalls + 1

\* C35: the close notification of a socket that is not the current one leaves
\* the handle and connectedAt as they are.
C35_StaleCloseKeepsHandle ==
    [][\A s \in 1..MaxSockets :
           (ClosedOn(s) /\ mem.ws # 0 /\ mem.ws # s) =>
               /\ mem'.ws = mem.ws
               /\ mem'.connectedAt = mem.connectedAt]_vars


\* handler h has returned from ensureInitialized and is in its body
PastInit(h) == h.pc \notin { "free", "login" }

\* C36: every handler that is past ensureInitialized runs with the actor's
\* identity set.
C36_InitializedBeforeBody ==
    \A h \in Slots : PastInit(hs[h]) => mem.agentDid # NoDid


\* the messages the running DM poll fetched, and those of them that made it
\* run
Fetched(h) == Inboxes[h.msgs]
Triggers(h) == { k \in 1..Len(Fetched(h)) : Unread(Fetched(h)[k], h.lastChecked) }

\* C37: when the run that unread admin messages triggered ends,
\* last_dm_check is set and not older than any of them, so that a later poll
\* does not run for them again.
C37_TriggerCheckpointed ==
    [][DmRunEnds =>
           /\ kv'.last_dm_check # Undefined
           /\ \A k \in Triggers(hs[AlarmSlot]) :
                  kv'.last_dm_check >= Fetched(hs[AlarmSlot])[k].sentAt]_vars


\* ------------------------------------------------------------ thread tracking
\* events of every kind given to handleEvent by POST /event, at several clock
\* readings, with lookups that fail, decision procedures of every plan and
\* storage faults
TrackNext ==
    \/ \E ev \in EvIds : Fetch("event", ev, FALSE)
    \/ \E ok \in BOOLEAN : LoginDone(ReqSlot, ok, FALSE)
    \/ \E found \in BOOLEAN, inj \in Injections : ProfileDone(ReqSlot, found, inj)
    \/ \E plan \in Plans : GenDone(ReqSlot, plan, FALSE, FALSE)
    \/ Tick

TrackSpec == Init /\ [][TrackNext]_vars

\* the event is a post whose record has reply.root.uri
HasReplyRoot(e) ==
    /\ e.kind = "commit" /\ e.commit /\ e.collection = POST
    /\ e.record /\ e.reply /\ e.root # NoUri

\* this step is the return of runToolLoop to handleEvent
EventRunEnds ==
    /\ RunsEvent(hs[ReqSlot])
    /\ hs'[ReqSlot] # hs[ReqSlot]

\* C38: when runToolLoop returns to handleEvent, by its final answer, at the
\* step cap or after a caught fault, with or without an action taken, the
\* reply root of a handled post is upserted with the clock reading, and for
\* any other event the table is left alone; no other step (a storage fault
\* that leaves runToolLoop among them) changes the table.
C38_UpsertAfterEveryReturn ==
    [][IF EventRunEnds
       THEN LET e == AllEvents[hs[ReqSlot].ev]
            IN  tracked_threads' =
                    IF HasReplyRoot(e)
                    THEN { r \in tracked_threads : r.rootUri # e.root }
                         \cup { [rootUri |-> e.root, lastActivity |-> now] }
                    ELSE tracked_threads
       ELSE tracked_threads' = tracked_threads]_vars

\* C38 witness: the run for a reply failed without any action, handleEvent
\* has returned, and the reply's root is tracked
C38_Witness ==
    /\ hs[ReqSlot].pc = "free"
    /\ loopLog = [how |-> "fault", steps |-> 0, returned |-> TRUE]
    /\ \A e \in EvIds : acts[e] = 0
    /\ \E r \in tracked_threads : r.rootUri = Uri(ThirdDid, "r1")


\* ------------------------------------------------------------ resume position
\* cursor values an earlier process may have stored: nothing, 0, values
\* around the safety margin, and event times of the log
StoredCursors ==
    { Undefined, 0, 1, safetyMargin - 1, safetyMargin, safetyMargin + 1,
      Log[1].time_us, Log[3].time_us }

\* a new process over the storage an earlier one has left
ResumeInit ==
    /\ mem = Mem0
    /\ \E c \in StoredCursors :
           kv = [Kv0 EXCEPT !.jetstream_cursor = c, !.identity = TRUE, !.norms = TRUE]
    /\ tracked_threads = {}
    /\ alarmAt = Undefined
    /\ hs = [h \in Slots |-> FreeH]
    /\ sockets = [s \in 1..MaxSockets |-> NoSocket]
    /\ now = Now0
    /\ inbox = 1
    /\ head = 0
    /\ lastDone = Undefined
    /\ lastPut = NoPut
    /\ acts = [e \in EvIds |-> 0]
    /\ loopLog = NoRun
    /\ crashes = 0
    /\ pendingAtCrash = {}
    /\ faults = 0
    /\ requests = 0
    /\ noops = 0
    /\ probe = NoProbe

\* the process is started and connects, its connections open, it restarts
ResumeNext ==
    \/ Fetch("start", 0, FALSE)
    \/ \E ok \in BOOLEAN : LoginDone(ReqSlot, ok, FALSE)
    \/ \E s \in 1..MaxSockets : SocketOpen(s)
    \/ Crash

ResumeSpec == ResumeInit /\ [][ResumeNext]_vars

\* C39: the cursor parameter of a connection is never negative.
C39_ResumeNotNegative ==
    \A s \in 1..MaxSockets :
        sockets[s].param.present => sockets[s].param.value >= 0


\* this step is onEvent for the next frame of socket s
DeliveredOn(s) ==
    /\ sockets[s].state = "open"
    /\ sockets'[s].pos = sockets[s].pos + 1

\* C40: eventsHandled never exceeds eventsReceived; each delivered event adds
\* one to eventsReceived, and one to eventsHandled exactly if it is relevant.
C40_HandledAtMostReceived ==
    /\ [](mem.eventsHandled <= mem.eventsReceived)
    /\ [][\A s \in 1..MaxSockets : DeliveredOn(s) =>
              /\ mem'.eventsReceived = mem.eventsReceived + 1
              /\ mem'.eventsHandled = mem.eventsHandled +
                     IF isRelevantEvent(mem.agentDid, tracked_threads,
                                        Log[sockets[s].pos])
                     THEN 1 ELSE 0]_vars

\* C40 witness: a reconnect has reset the counters while the handler of an
\* event of the previous connection is suspended, and the new connection has
\* delivered an event that is not relevant
C40_Witness ==
    \E h \in EvSlots :
        /\ hs[h].pc # "free"
        /\ mem.ws # 0
        /\ hs[h].sock # mem.ws
        /\ mem.eventsReceived = 1
        /\ mem.eventsHandled = 0

====
